---- MODULE Spec2Model ----
\* A model of the smallifier link shortener (package smallifier): the two HTTP
\* handlers, the path generator, the link store and the follow worker.
\* Strings the code inspects (URLs, paths, short paths) are sequences of
\* one-character strings, so that HasPrefix, len and slicing are computed.
EXTENDS Integers, Sequences, FiniteSets, TLC

\* ---------------------------------------------------------------- bounds
\* Total number of requests the environment sends: creates, lookups and the
\* collector's reads of a counter.
MaxRequests == 3
\* Capacity of the follows channel in the model (the code allocates 1024*1024).
FollowsCap == 2

\* ------------------------------------------------------ program constants
\* for i := 0; i < 30; i++
MaxAttempts == 30

\* ------------------------------------------------------------ input sets
\* The request-handling goroutines that can be in flight at the same time.
Procs == {"h1", "h2"}

\* Outcomes of rand.Read(buf), buf of 6 bytes, the model draws from.
RandBufs == { <<0, 0, 0, 0, 0, 0>>, <<0, 16, 131, 255, 255, 255>> }

\* time.Now().Unix() is the wall clock: any of these, in any order.
Times == {1500000000}
\* The same clock as LookupHandler reads it for its follow events.
FollowTimes == {1500000000, 1500000001}
RemoteAddrs == {"10.0.0.1:4000"}
ForwardedFors == {""}

HttpsPrefix == <<"h","t","t","p","s",":","/","/">>
UrlA == <<"h","t","t","p","s",":","/","/","a">>
UrlLong == <<"h","t","t","p","s",":","/","/","a","/","l","o","n","g">>
UrlHttp == <<"h","t","t","p",":","/","/","a">>
LongURLs == {UrlA, UrlLong, UrlHttp}

\* testSecret, a wrong secret, and the zero value of a missing "secret" key.
TheSecret == "Ringtails have stripy, stripy tails"
Secrets == {TheSecret, "wrong", ""}

\* -length-limit values the server may be started with.
LengthLimits == {-1, 0, 9}

\* base.Path and base.String() of the configured base URL.
BasePath == <<"/","s","/">>
BaseString == <<"h","t","t","p","s",":","/","/","m",".","t","o","/","s","/">>

\* ------------------------------------------------------- pure functions
\* strings.HasPrefix(s, prefix)
HasPrefix(s, prefix) ==
    /\ Len(s) >= Len(prefix)
    /\ SubSeq(s, 1, Len(prefix)) = prefix

\* The alphabet of base64.URLEncoding.
EncodeURL ==
    << "A","B","C","D","E","F","G","H","I","J","K","L","M","N","O","P",
       "Q","R","S","T","U","V","W","X","Y","Z","a","b","c","d","e","f",
       "g","h","i","j","k","l","m","n","o","p","q","r","s","t","u","v",
       "w","x","y","z","0","1","2","3","4","5","6","7","8","9","-","_" >>

Sextet(n) == EncodeURL[(n % 64) + 1]

\* base64.RawURLEncoding.EncodeToString(buf): 3 bytes give 4 characters, a
\* remainder of 1 or 2 bytes gives 2 or 3 characters, and there is no padding.
RECURSIVE EncodeToString(_)
EncodeToString(buf) ==
    IF Len(buf) = 0 THEN <<>>
    ELSE IF Len(buf) = 1 THEN
        LET v == buf[1] * 65536
        IN  << Sextet(v \div 262144), Sextet(v \div 4096) >>
    ELSE IF Len(buf) = 2 THEN
        LET v == buf[1] * 65536 + buf[2] * 256
        IN  << Sextet(v \div 262144), Sextet(v \div 4096), Sextet(v \div 64) >>
    ELSE
        LET v == buf[1] * 65536 + buf[2] * 256 + buf[3]
        IN  << Sextet(v \div 262144), Sextet(v \div 4096),
               Sextet(v \div 64), Sextet(v) >>
            \o EncodeToString(SubSeq(buf, 4, Len(buf)))

\* Request paths of lookups: every path the generator can produce under the
\* base path, one that was never generated, and one outside the base path.
NoSuchPath == <<"n","o","s","u","c","h">>
LookupPaths ==
    { BasePath \o EncodeToString(b) : b \in RandBufs }
        \cup { BasePath \o NoSuchPath, <<"/","x">> }

\* --------------------------------------------------------------- state
VARIABLES
    lengthLimit,         \* the configured length limit
    h,                   \* the request handlers: position and locals
    links,               \* table links, rows in insertion order
    followsTbl,          \* table follows, rows in insertion order
    follows,             \* s.follows, the channel of follow events
    pendingFollows,      \* s.pendingFollows
    randomErrorCount,    \* s.randomErrorCount
    authErrorCount,      \* s.authErrorCount
    dbUpdateErrorCount,  \* s.dbUpdateErrorCount
    worker,              \* the follow worker: position and the event it holds
    exited,              \* the process has exited (log.Fatal)
    nreq,                \* requests received so far
    last,                \* the response of the handler that returned last
    returned,            \* history: <<short path, long URL>> of every 200 create
    served,              \* history: <<short path, Location>> of every 302
    n401,                \* history: number of 401 responses written
    dropped,             \* history: short paths of the follow events dropped
    sent,                \* history: the follow events in the order of their send
    handled,             \* history: whether the insert succeeded, per event received
    metric               \* the reading the metrics collector took last

vars == << lengthLimit, h, links, followsTbl, follows, pendingFollows,
           randomErrorCount, authErrorCount, dbUpdateErrorCount, worker,
           exited, nreq, last, returned, served, n401, dropped, sent,
           handled, metric >>

storeVars == << links, followsTbl >>
queueVars == << follows, pendingFollows, worker >>
counterVars == << randomErrorCount, authErrorCount, dbUpdateErrorCount >>
histVars == << returned, served, n401, dropped, sent, handled >>

\* A handler goroutine that serves no request. The fields are the request
\* (kind, decodable, secret, longURL, path, ip, xff), the locals of the handler
\* (shortPath, err), the response (status, location, body, shortURL) and, for
\* the record, what generateShortPath logged (seen) and its loop counter (i).
Idle ==
    [ pc |-> "idle", kind |-> "none", decodable |-> TRUE, secret |-> "",
      longURL |-> <<>>, path |-> <<>>, ip |-> "", xff |-> "",
      i |-> 0, shortPath |-> <<>>, err |-> "", seen |-> {}, rows0 |-> 0,
      status |-> 0, location |-> <<>>, body |-> "", shortURL |-> <<>> ]

NoFollow == [ shortPath |-> <<>>, timestamp |-> 0, ip |-> "", forwardedFor |-> "" ]

\* No reading yet.
NoMetric == [name |-> "", value |-> 0]

\* New, and the tables CreateTables leaves in a fresh database.
Init ==
    /\ lengthLimit \in LengthLimits
    /\ h = [p \in Procs |-> Idle]
    /\ links = <<>>
    /\ followsTbl = <<>>
    /\ follows = <<>>
    /\ pendingFollows = 0
    /\ randomErrorCount = 0
    /\ authErrorCount = 0
    /\ dbUpdateErrorCount = 0
    /\ worker = [pc |-> "w_recv", f |-> NoFollow]
    /\ exited = FALSE
    /\ nreq = 0
    /\ last = Idle
    /\ returned = <<>>
    /\ served = <<>>
    /\ n401 = 0
    /\ dropped = <<>>
    /\ sent = <<>>
    /\ handled = <<>>
    /\ metric = NoMetric

\* ------------------------------------------------------------ the store
\* Whether table links holds a row whose short_path is sp.
HasRow(tbl, sp) == \E k \in 1..Len(tbl) : tbl[k].short_path = sp

\* The query with sql.ErrNoRows never reported: an absent row scans as "".
SelectLongURLNoErrNoRows(tbl, sp) ==
    IF HasRow(tbl, sp)
    THEN LET k == CHOOSE k \in 1..Len(tbl) : tbl[k].short_path = sp
         IN  [err |-> "", long_url |-> tbl[k].long_url]
    ELSE [err |-> "", long_url |-> <<>>]

\* SELECT long_url FROM links WHERE short_path = $1, as QueryRow/Scan read it:
\* the first matching row, or sql.ErrNoRows.
SelectLongURL(tbl, sp) ==
    IF HasRow(tbl, sp)
    THEN LET k == CHOOSE k \in 1..Len(tbl) :
                      /\ tbl[k].short_path = sp
                      /\ \A j \in 1..(k - 1) : tbl[j].short_path # sp
         IN  [err |-> "", long_url |-> tbl[k].long_url]
    ELSE [err |-> "ErrNoRows", long_url |-> <<>>]

\* INSERT INTO links ... without the constraint: the row is always appended.
InsertLinkNoConstraint(tbl, row) ==
    [err |-> "", tbl |-> Append(tbl, row)]

\* INSERT OR REPLACE INTO links ...: a row with the same short_path is
\* overwritten.
InsertLinkReplace(tbl, row) ==
    IF HasRow(tbl, row.short_path)
    THEN [err |-> "",
          tbl |-> [k \in 1..Len(tbl) |->
                     IF tbl[k].short_path = row.short_path THEN row
                     ELSE tbl[k]]]
    ELSE [err |-> "", tbl |-> Append(tbl, row)]

\* INSERT INTO links ... on a table whose short_path is declared UNIQUE: the
\* statement either appends the row or is rejected, atomically.
InsertLink(tbl, row) ==
    IF HasRow(tbl, row.short_path)
    THEN [err |-> "unique", tbl |-> tbl]
    ELSE [err |-> "", tbl |-> Append(tbl, row)]

\* INSERT INTO follows ...: no constraint beyond NOT NULL.
InsertFollow(tbl, f) ==
    Append(tbl, [short_path |-> f.shortPath, ts |-> f.timestamp,
                 ip |-> f.ip, forwarded_for |-> f.forwardedFor])

\* SELECT COUNT(*) FROM follows WHERE short_path = $1
FollowCount(tbl, sp) ==
    Cardinality({k \in 1..Len(tbl) : tbl[k].short_path = sp})

\* ------------------------------------------------------------ counters
\* An increment that is lost.
AddUint64Lost(x, delta) == x

\* atomic.AddUint64(&x, delta): one indivisible read-modify-write. The counts
\* of the model stay far below 2^64.
AddUint64(x, delta) == x + delta

\* A change of the pending count that is lost.
AddInt64Lost(x, delta) == x

\* atomic.AddInt64(&x, delta)
AddInt64(x, delta) == x + delta

\* ------------------------------------------------------- CreateHandler
\* The length check without the test for a configured limit.
TooLongAnyLimit(limit, url) == Len(url) > limit

\* The length check of CreateHandler: a limit <= 0 means no limit.
TooLong(limit, url) == limit > 0 /\ Len(url) > limit

\* CreateChecks without the test of the https:// prefix.
CreateChecksNoPrefix(req, limit) ==
    IF ~req.decodable THEN "bad_json"
    ELSE IF req.secret # TheSecret THEN "bad_secret"
    ELSE IF TooLong(limit, req.longURL) THEN "too_long"
    ELSE "ok"

\* CreateChecks with the https:// prefix tested before the secret.
CreateChecksPrefixFirst(req, limit) ==
    IF ~req.decodable THEN "bad_json"
    ELSE IF ~HasPrefix(req.longURL, HttpsPrefix) THEN "not_https"
    ELSE IF req.secret # TheSecret THEN "bad_secret"
    ELSE IF TooLong(limit, req.longURL) THEN "too_long"
    ELSE "ok"

\* The checks CreateHandler applies to a request before it generates a path,
\* in the order of the code; the result names the first check that fails.
CreateChecks(req, limit) ==
    IF ~req.decodable THEN "bad_json"
    ELSE IF req.secret # TheSecret THEN "bad_secret"
    ELSE IF ~HasPrefix(req.longURL, HttpsPrefix) THEN "not_https"
    ELSE IF TooLong(limit, req.longURL) THEN "too_long"
    ELSE "ok"

\* net/http starts a fresh goroutine for every request: which of the free
\* handlers of the model serves it makes no difference, so it is the first one.
ProcOrder == << "h1", "h2" >>
FirstIdle ==
    ProcOrder[CHOOSE k \in 1..Len(ProcOrder) :
                /\ h[ProcOrder[k]].pc = "idle"
                /\ \A j \in 1..(k - 1) : h[ProcOrder[j]].pc # "idle"]

\* A request as json.Decoder leaves it: an undecodable body leaves jsonReq zero.
\* rows0 notes how many links rows there were when the request arrived.
CreateRequest(dec, sec, url, ip, xff, rows0) ==
    [Idle EXCEPT !.kind = "create", !.decodable = dec, !.rows0 = rows0,
                 !.secret = IF dec THEN sec ELSE "",
                 !.longURL = IF dec THEN url ELSE <<>>,
                 !.ip = ip, !.xff = xff]

\* The handler of p returns: the response r is flushed to the client and the
\* goroutine is free again.
Return(p, r) ==
    /\ h' = [h EXCEPT ![p] = Idle]
    /\ last' = [r EXCEPT !.pc = "returned"]

\* CreateHandler from the arrival of the request to its first access to shared
\* state: decoding, the secret, the https:// prefix and the length limit.
CreateHandler(p) ==
    /\ ~exited
    /\ h[p].pc = "idle"
    /\ p = FirstIdle
    /\ nreq < MaxRequests
    /\ \E dec \in BOOLEAN, sec \in Secrets, url \in LongURLs,
          ip \in RemoteAddrs, xff \in ForwardedFors :
          LET req == CreateRequest(dec, sec, url, ip, xff, Len(links))
              chk == CreateChecks(req, lengthLimit)
          IN  /\ nreq' = nreq + 1
              /\ CASE chk = "bad_json" ->
                        /\ Return(p, [req EXCEPT !.status = 400,
                                 !.body = "{\"error\": \"error decoding json\"}"])
                        /\ UNCHANGED authErrorCount
                   [] chk = "bad_secret" ->
                        /\ authErrorCount' = AddUint64(authErrorCount, 1)
                        /\ h' = [h EXCEPT ![p] = [req EXCEPT !.pc = "c_401"]]
                        /\ UNCHANGED last
                   [] chk = "not_https" ->
                        /\ Return(p, [req EXCEPT !.status = 400,
                                 !.body = "{\"error\": \"Links must start with https://\"}"])
                        /\ UNCHANGED authErrorCount
                   [] chk = "too_long" ->
                        /\ Return(p, [req EXCEPT !.status = 400,
                                 !.body = "{\"error\": \"link too long\"}"])
                        /\ UNCHANGED authErrorCount
                   [] OTHER ->
                        /\ h' = [h EXCEPT ![p] = [req EXCEPT !.pc = "g_loop"]]
                        /\ UNCHANGED << last, authErrorCount >>
    /\ UNCHANGED << lengthLimit, metric, storeVars, queueVars, randomErrorCount,
                    dbUpdateErrorCount, exited, histVars >>

\* CreateHandler after a failed secret comparison with the `return` left out:
\* the 401 is written and the handler goes on to generate a short path.
CreateUnauthorizedNoReturn(p) ==
    /\ ~exited
    /\ h[p].pc = "c_401"
    /\ h' = [h EXCEPT ![p] = [@ EXCEPT !.pc = "g_loop", !.status = 401]]
    /\ n401' = n401 + 1
    /\ UNCHANGED << lengthLimit, metric, storeVars, queueVars, counterVars, exited,
                    nreq, last, returned, served, dropped, sent, handled >>

\* CreateHandler after a failed secret comparison: WriteHeader(401), the error
\* body, return.
CreateUnauthorized(p) ==
    /\ ~exited
    /\ h[p].pc = "c_401"
    /\ Return(p, [h[p] EXCEPT !.status = 401,
                     !.body = "{\"error\": \"Must specify correct secret\"}"])
    /\ n401' = n401 + 1
    /\ UNCHANGED << lengthLimit, metric, storeVars, queueVars, counterVars, exited,
                    nreq, returned, served, dropped, sent, handled >>

\* --------------------------------------------------- generateShortPath
\* LinkRow with the first two arguments of the INSERT swapped.
LinkRowSwapped(r, shortPath, ts) ==
    [short_path |-> r.longURL, long_url |-> shortPath, create_ts |-> ts,
     create_ip |-> r.ip, create_forwarded_for |-> r.xff]

\* The row generateShortPath inserts for the candidate shortPath.
LinkRow(r, shortPath, ts) ==
    [short_path |-> shortPath, long_url |-> r.longURL, create_ts |-> ts,
     create_ip |-> r.ip, create_forwarded_for |-> r.xff]

\* AttemptErr with the uniqueness violation not reported: only a storage fault
\* makes the attempt fail.
AttemptErrUniqueIgnored(tbl, row, fault) ==
    IF fault THEN "storage" ELSE ""

\* The error of one insert attempt: a storage fault, or what the table says.
AttemptErr(tbl, row, fault) ==
    IF fault THEN "storage" ELSE InsertLink(tbl, row).err

\* What one iteration can draw and get back from the store for request r:
\* the candidate, the timestamp and the error of the insert ("" for none).
Tries(tbl, r) ==
    { [shortPath |-> EncodeToString(buf), ts |-> ts,
       err |-> AttemptErr(tbl, LinkRow(r, EncodeToString(buf), ts), fault)] :
      << buf, ts, fault >> \in RandBufs \X Times \X BOOLEAN }

\* GenerateOutcomes with the error of the insert ignored: the candidate is
\* returned whatever Exec answered.
RECURSIVE GenerateOutcomesIgnoringErr(_, _, _)
GenerateOutcomesIgnoringErr(tries, i, seens) ==
    IF i >= MaxAttempts
    THEN { [result |-> "exhausted", i |-> i, shortPath |-> <<>>,
            ts |-> 0, seen |-> seen] : seen \in seens }
    ELSE { [result |-> "random_error", i |-> i, shortPath |-> <<>>,
            ts |-> 0, seen |-> seen] : seen \in seens }
         \cup { [result |-> "ok", i |-> i, shortPath |-> x[1].shortPath,
                 ts |-> x[1].ts, seen |-> x[2]] : x \in tries \X seens }

\* GenerateOutcomes with the loop bound off by one: a 31st attempt is made.
RECURSIVE GenerateOutcomesOneMore(_, _, _)
GenerateOutcomesOneMore(tries, i, seens) ==
    IF i > MaxAttempts
    THEN { [result |-> "exhausted", i |-> i, shortPath |-> <<>>,
            ts |-> 0, seen |-> seen] : seen \in seens }
    ELSE LET good == { t \in tries : t.err = "" }
             errs == { t.err : t \in tries } \ {""}
         IN  { [result |-> "random_error", i |-> i, shortPath |-> <<>>,
                ts |-> 0, seen |-> seen] : seen \in seens }
             \cup { [result |-> "ok", i |-> i, shortPath |-> x[1].shortPath,
                     ts |-> x[1].ts, seen |-> x[2]] : x \in good \X seens }
             \cup ( IF errs = {} THEN {}
                    ELSE GenerateOutcomesOneMore(tries, i + 1,
                           { x[1] \cup {x[2]} : x \in seens \X errs }) )

\* GenerateOutcomes with the two kinds of failure told apart: a duplicate is
\* retried, any other storage error ends the call with the generation error.
RECURSIVE GenerateOutcomesAbortOnStorage(_, _, _)
GenerateOutcomesAbortOnStorage(tries, i, seens) ==
    IF i >= MaxAttempts
    THEN { [result |-> "exhausted", i |-> i, shortPath |-> <<>>,
            ts |-> 0, seen |-> seen] : seen \in seens }
    ELSE LET good == { t \in tries : t.err = "" }
             errs == { t.err : t \in tries } \ {""}
         IN  { [result |-> "random_error", i |-> i, shortPath |-> <<>>,
                ts |-> 0, seen |-> seen] : seen \in seens }
             \cup { [result |-> "ok", i |-> i, shortPath |-> x[1].shortPath,
                     ts |-> x[1].ts, seen |-> x[2]] : x \in good \X seens }
             \cup ( IF "storage" \in errs
                    THEN { [result |-> "exhausted", i |-> MaxAttempts,
                            shortPath |-> <<>>, ts |-> 0,
                            seen |-> seen \cup {"storage"}] : seen \in seens }
                    ELSE {} )
             \cup ( IF "unique" \in errs
                    THEN GenerateOutcomesAbortOnStorage(tries, i + 1,
                           { seen \cup {"unique"} : seen \in seens })
                    ELSE {} )

\* The loop of generateShortPath from iteration i on: every way the call can
\* end. `tries` is what an iteration can draw and get back from the store,
\* `seens` holds the sets of errors the earlier iterations can have logged.
\* At i = 30 the loop is over ("exhausted"). Otherwise rand.Read fails
\* ("random_error"), or a candidate is drawn and encoded and its insert
\* succeeds ("ok", the candidate is returned at once), or the insert fails with
\* some error, which is logged, and the loop goes on with i + 1.
\* A failed attempt changes nothing in the store and would fail as well at any
\* later time (rows are never deleted), so the failed attempts of a call are
\* taken together with the attempt that ends it, against one table.
RECURSIVE GenerateOutcomes(_, _, _)
GenerateOutcomes(tries, i, seens) ==
    IF i >= MaxAttempts
    THEN { [result |-> "exhausted", i |-> i, shortPath |-> <<>>,
            ts |-> 0, seen |-> seen] : seen \in seens }
    ELSE LET good == { t \in tries : t.err = "" }
             errs == { t.err : t \in tries } \ {""}
         IN  { [result |-> "random_error", i |-> i, shortPath |-> <<>>,
                ts |-> 0, seen |-> seen] : seen \in seens }
             \cup { [result |-> "ok", i |-> i, shortPath |-> x[1].shortPath,
                     ts |-> x[1].ts, seen |-> x[2]] : x \in good \X seens }
             \cup ( IF errs = {} THEN {}
                    ELSE GenerateOutcomes(tries, i + 1,
                           { x[1] \cup {x[2]} : x \in seens \X errs }) )

\* The results of a call as its caller can tell them apart: the loop counter is
\* a local of the call and is kept only for the exhausted loop.
CallResults(outcomes) ==
    { [o EXCEPT !.i = IF o.result = "exhausted" THEN o.i ELSE 0] :
      o \in outcomes }

\* The call s.generateShortPath(...) of CreateHandler and what CreateHandler
\* does with its result: the short URL, or 500 with the error as the body.
GenerateShortPath(p) ==
    /\ ~exited
    /\ h[p].pc = "g_loop"
    /\ \E o \in CallResults(GenerateOutcomes(Tries(links, h[p]), 0, {{}})) :
          CASE o.result = "ok" ->
                 /\ links' = InsertLink(links,
                                LinkRow(h[p], o.shortPath, o.ts)).tbl
                 /\ Return(p, [h[p] EXCEPT !.status = 200,
                                  !.seen = o.seen,
                                  !.shortPath = o.shortPath,
                                  !.shortURL = BaseString \o o.shortPath])
                 /\ returned' = Append(returned,
                                       << o.shortPath, h[p].longURL >>)
                 /\ UNCHANGED randomErrorCount
            [] o.result = "random_error" ->
                 /\ randomErrorCount' = AddUint64(randomErrorCount, 1)
                 /\ h' = [h EXCEPT ![p] = [@ EXCEPT !.pc = "g_fatal"]]
                 /\ UNCHANGED << links, last, returned >>
            [] OTHER ->
                 /\ Return(p, [h[p] EXCEPT !.status = 500,
                          !.i = o.i, !.seen = o.seen,
                          !.body = "{\"error\": \"could not generate link\"}"])
                 /\ UNCHANGED << links, returned, randomErrorCount >>
    /\ UNCHANGED << lengthLimit, metric, followsTbl, queueVars, authErrorCount,
                    dbUpdateErrorCount, exited, nreq, served, n401, dropped,
                    sent, handled >>

\* log.Fatal("Could not generate random numbers", err): logs and exits the
\* process; the return statement after it is never reached.
GenerateFatal(p) ==
    /\ ~exited
    /\ h[p].pc = "g_fatal"
    /\ exited' = TRUE
    /\ UNCHANGED << lengthLimit, metric, h, storeVars, queueVars, counterVars, nreq,
                    last, histVars >>

\* -------------------------------------------------------- LookupHandler
\* A lookup request for the URL path `path`.
LookupRequest(path, ip, xff) ==
    [Idle EXCEPT !.kind = "lookup", !.path = path, !.ip = ip, !.xff = xff]

\* req.URL.Path[len(s.base.Path):]
StripBase(path) == SubSeq(path, Len(BasePath) + 1, Len(path))

\* LookupHandler with the 302 flushed to the client at WriteHeader, before the
\* follow is counted and sent.
LookupHandlerFlush(p) ==
    /\ ~exited
    /\ h[p].pc = "idle"
    /\ p = FirstIdle
    /\ nreq < MaxRequests
    /\ nreq' = nreq + 1
    /\ \E path \in LookupPaths, ip \in RemoteAddrs, xff \in ForwardedFors,
          fault \in BOOLEAN :
          LET req == LookupRequest(path, ip, xff)
          IN  IF ~HasPrefix(path, BasePath)
              THEN /\ Return(p, [req EXCEPT !.status = 404])
                   /\ UNCHANGED served
              ELSE LET shortPath == StripBase(path)
                       row == IF fault THEN [err |-> "storage", long_url |-> <<>>]
                              ELSE SelectLongURL(links, shortPath)
                       r == [req EXCEPT !.shortPath = shortPath, !.err = row.err]
                   IN  CASE row.err = "" ->
                              /\ h' = [h EXCEPT ![p] =
                                         [r EXCEPT !.pc = "l_count",
                                                   !.status = 302,
                                                   !.location = row.long_url]]
                              /\ served' = Append(served,
                                                  << shortPath, row.long_url >>)
                              /\ last' = [r EXCEPT !.pc = "returned",
                                                   !.status = 302,
                                                   !.location = row.long_url]
                         [] row.err = "ErrNoRows" ->
                              /\ Return(p, [r EXCEPT !.status = 404,
                                       !.body = "{\"error\": \"link not found\"}"])
                              /\ UNCHANGED served
                         [] OTHER ->
                              /\ Return(p, [r EXCEPT !.status = 500,
                                       !.body = "{\"error\": \"internal server error\"}"])
                              /\ UNCHANGED served
    /\ UNCHANGED << lengthLimit, metric, storeVars, queueVars, counterVars, exited,
                    returned, n401, dropped, sent, handled >>

\* LookupHandler from the arrival of the request to the response header: the
\* base-path check, the query and the status it leads to. After a 302 the
\* handler still has the follow to count and to send.
LookupHandler(p) ==
    /\ ~exited
    /\ h[p].pc = "idle"
    /\ p = FirstIdle
    /\ nreq < MaxRequests
    /\ nreq' = nreq + 1
    /\ \E path \in LookupPaths, ip \in RemoteAddrs, xff \in ForwardedFors,
          fault \in BOOLEAN :
          LET req == LookupRequest(path, ip, xff)
          IN  IF ~HasPrefix(path, BasePath)
              THEN /\ Return(p, [req EXCEPT !.status = 404])
                   /\ UNCHANGED served
              ELSE LET shortPath == StripBase(path)
                       row == IF fault THEN [err |-> "storage", long_url |-> <<>>]
                              ELSE SelectLongURL(links, shortPath)
                       r == [req EXCEPT !.shortPath = shortPath, !.err = row.err]
                   IN  CASE row.err = "" ->
                              /\ h' = [h EXCEPT ![p] =
                                         [r EXCEPT !.pc = "l_count",
                                                   !.status = 302,
                                                   !.location = row.long_url]]
                              /\ served' = Append(served,
                                                  << shortPath, row.long_url >>)
                              /\ UNCHANGED last
                         [] row.err = "ErrNoRows" ->
                              /\ Return(p, [r EXCEPT !.status = 404,
                                       !.body = "{\"error\": \"link not found\"}"])
                              /\ UNCHANGED served
                         [] OTHER ->
                              /\ Return(p, [r EXCEPT !.status = 500,
                                       !.body = "{\"error\": \"internal server error\"}"])
                              /\ UNCHANGED served
    /\ UNCHANGED << lengthLimit, metric, storeVars, queueVars, counterVars, exited,
                    returned, n401, dropped, sent, handled >>

\* LookupCount with the increment left out.
LookupCountSkipped(p) ==
    /\ ~exited
    /\ h[p].pc = "l_count"
    /\ h' = [h EXCEPT ![p] = [@ EXCEPT !.pc = "l_send"]]
    /\ UNCHANGED << lengthLimit, metric, storeVars, follows, worker,
                    counterVars, pendingFollows, exited, nreq, last,
                    histVars >>

\* atomic.AddInt64(&s.pendingFollows, 1)
LookupCount(p) ==
    /\ ~exited
    /\ h[p].pc = "l_count"
    /\ pendingFollows' = AddInt64(pendingFollows, 1)
    /\ h' = [h EXCEPT ![p] = [@ EXCEPT !.pc = "l_send"]]
    /\ UNCHANGED << lengthLimit, metric, storeVars, follows, worker, counterVars,
                    exited, nreq, last, histVars >>

\* The follow event with the request path in place of the stripped short path.
FollowOfRequestPath(r, ts) ==
    [shortPath |-> r.path, timestamp |-> ts, ip |-> r.ip,
     forwardedFor |-> r.xff]

\* The follow event LookupHandler builds for the request r.
FollowOf(r, ts) ==
    [shortPath |-> r.shortPath, timestamp |-> ts, ip |-> r.ip,
     forwardedFor |-> r.xff]

\* LookupSend as a send that never blocks: when the channel is full the event
\* is discarded and the handler returns.
LookupSendOrDrop(p) ==
    /\ ~exited
    /\ h[p].pc = "l_send"
    /\ IF Len(follows) < FollowsCap
       THEN \E ts \in FollowTimes :
               /\ follows' = Append(follows, FollowOf(h[p], ts))
               /\ sent' = Append(sent, FollowOf(h[p], ts))
       ELSE UNCHANGED << follows, sent >>
    /\ Return(p, h[p])
    /\ UNCHANGED << lengthLimit, metric, storeVars, pendingFollows, worker,
                    counterVars, exited, nreq, returned, served, n401,
                    dropped, handled >>

\* s.follows <- follow{...}: blocks while the channel is full; then the
\* handler returns.
LookupSend(p) ==
    /\ ~exited
    /\ h[p].pc = "l_send"
    /\ Len(follows) < FollowsCap
    /\ \E ts \in FollowTimes :
          /\ follows' = Append(follows, FollowOf(h[p], ts))
          /\ sent' = Append(sent, FollowOf(h[p], ts))
    /\ Return(p, h[p])
    /\ UNCHANGED << lengthLimit, metric, storeVars, pendingFollows, worker,
                    counterVars, exited, nreq, returned, served, n401,
                    dropped, handled >>

\* ---------------------------------------------------- the follow worker
\* WorkerReceive taking the event sent last instead of the one sent first.
WorkerReceiveLast ==
    /\ ~exited
    /\ worker.pc = "w_recv"
    /\ Len(follows) > 0
    /\ worker' = [pc |-> "w_insert", f |-> follows[Len(follows)]]
    /\ follows' = SubSeq(follows, 1, Len(follows) - 1)
    /\ UNCHANGED << lengthLimit, metric, h, storeVars, pendingFollows,
                    counterVars, exited, nreq, last, histVars >>

\* for f := range s.follows: take the next event off the channel.
WorkerReceive ==
    /\ ~exited
    /\ worker.pc = "w_recv"
    /\ Len(follows) > 0
    /\ worker' = [pc |-> "w_insert", f |-> Head(follows)]
    /\ follows' = Tail(follows)
    /\ UNCHANGED << lengthLimit, metric, h, storeVars, pendingFollows, counterVars,
                    exited, nreq, last, histVars >>

\* WorkerInsert with a retry: after a failed insert the worker keeps the event
\* and executes the statement again.
WorkerInsertRetry ==
    /\ ~exited
    /\ worker.pc = "w_insert"
    /\ \/ /\ followsTbl' = InsertFollow(followsTbl, worker.f)
          /\ worker' = [worker EXCEPT !.pc = "w_done"]
          /\ handled' = Append(handled, TRUE)
          /\ UNCHANGED << dropped, dbUpdateErrorCount >>
       \/ /\ dbUpdateErrorCount' = AddUint64(dbUpdateErrorCount, 1)
          /\ dropped' = Append(dropped, worker.f.shortPath)
          /\ handled' = Append(handled, FALSE)
          /\ UNCHANGED << followsTbl, worker >>
    /\ UNCHANGED << lengthLimit, metric, h, links, follows, pendingFollows,
                    randomErrorCount, authErrorCount, exited, nreq, last,
                    returned, served, n401, sent >>

\* s.db.Exec(`INSERT INTO follows ...`): the row is written, or the statement
\* fails and the error is logged.
WorkerInsert ==
    /\ ~exited
    /\ worker.pc = "w_insert"
    /\ \/ /\ followsTbl' = InsertFollow(followsTbl, worker.f)
          /\ worker' = [worker EXCEPT !.pc = "w_done"]
          /\ handled' = Append(handled, TRUE)
          /\ UNCHANGED dropped
       \/ /\ worker' = [worker EXCEPT !.pc = "w_err"]
          /\ dropped' = Append(dropped, worker.f.shortPath)
          /\ handled' = Append(handled, FALSE)
          /\ UNCHANGED followsTbl
    /\ UNCHANGED << lengthLimit, metric, h, links, follows, pendingFollows,
                    counterVars, exited, nreq, last, returned, served, n401,
                    sent >>

\* WorkerCountError followed by `continue`: the decrement is skipped for a
\* failed insert.
WorkerCountErrorContinue ==
    /\ ~exited
    /\ worker.pc = "w_err"
    /\ dbUpdateErrorCount' = AddUint64(dbUpdateErrorCount, 1)
    /\ worker' = [pc |-> "w_recv", f |-> NoFollow]
    /\ UNCHANGED << lengthLimit, metric, h, storeVars, follows, pendingFollows,
                    randomErrorCount, authErrorCount, exited, nreq, last,
                    histVars >>

\* atomic.AddUint64(&s.dbUpdateErrorCount, 1)
WorkerCountError ==
    /\ ~exited
    /\ worker.pc = "w_err"
    /\ dbUpdateErrorCount' = AddUint64(dbUpdateErrorCount, 1)
    /\ worker' = [worker EXCEPT !.pc = "w_done"]
    /\ UNCHANGED << lengthLimit, metric, h, storeVars, follows, pendingFollows,
                    randomErrorCount, authErrorCount, exited, nreq, last,
                    histVars >>

\* atomic.AddInt64(&s.pendingFollows, -1), and back to the head of the loop.
WorkerDone ==
    /\ ~exited
    /\ worker.pc = "w_done"
    /\ pendingFollows' = AddInt64(pendingFollows, -1)
    /\ worker' = [pc |-> "w_recv", f |-> NoFollow]
    /\ UNCHANGED << lengthLimit, metric, h, storeVars, follows, counterVars, exited,
                    nreq, last, histVars >>

\* ----------------------------------------------------------- metrics
\* float64(x) of a uint64: exact below 2^53, where the counts of the model stay.
Float64(x) == x

\* The state of the program and its history: everything but what the
\* collector holds and the count of the requests made.
progVars == << lengthLimit, h, links, followsTbl, follows, pendingFollows,
              randomErrorCount, authErrorCount, dbUpdateErrorCount, worker,
              exited, last, histVars >>

\* func (s *smallifier) RandomErrors() float64, as the collector calls it.
RandomErrors ==
    /\ ~exited
    /\ nreq < MaxRequests
    /\ nreq' = nreq + 1
    /\ metric' = [name |-> "random_error_count",
                  value |-> Float64(randomErrorCount)]
    /\ UNCHANGED progVars

\* AuthErrors as a read that resets the counter.
AuthErrorsReset ==
    /\ ~exited
    /\ nreq < MaxRequests
    /\ nreq' = nreq + 1
    /\ metric' = [name |-> "auth_error_count",
                  value |-> Float64(authErrorCount)]
    /\ authErrorCount' = 0
    /\ UNCHANGED << lengthLimit, h, links, followsTbl, follows, pendingFollows,
                    randomErrorCount, dbUpdateErrorCount, worker, exited,
                    last, histVars >>

\* func (s *smallifier) AuthErrors() float64
AuthErrors ==
    /\ ~exited
    /\ nreq < MaxRequests
    /\ nreq' = nreq + 1
    /\ metric' = [name |-> "auth_error_count",
                  value |-> Float64(authErrorCount)]
    /\ UNCHANGED progVars

\* func (s *smallifier) DBUpdateErrors() float64
DBUpdateErrors ==
    /\ ~exited
    /\ nreq < MaxRequests
    /\ nreq' = nreq + 1
    /\ metric' = [name |-> "db_update_error_count",
                  value |-> Float64(dbUpdateErrorCount)]
    /\ UNCHANGED progVars

\* ------------------------------------------------------- specification
Next ==
    \/ \E p \in Procs : CreateHandler(p)
    \/ \E p \in Procs : CreateUnauthorized(p)
    \/ \E p \in Procs : GenerateShortPath(p)
    \/ \E p \in Procs : GenerateFatal(p)
    \/ \E p \in Procs : LookupHandler(p)
    \/ \E p \in Procs : LookupCount(p)
    \/ \E p \in Procs : LookupSend(p)
    \/ WorkerReceive
    \/ WorkerInsert
    \/ WorkerCountError
    \/ WorkerDone

Spec == Init /\ [][Next]_vars

\* The follow pipeline never reads the length limit: a server started without.
FairInit == Init /\ lengthLimit = 0

\* The server with the metrics collector reading the counters at any time.
MetricsNext ==
    \/ Next
    \/ RandomErrors
    \/ AuthErrors
    \/ DBUpdateErrors

MetricsSpec == FairInit /\ [][MetricsNext]_vars

\* The goroutines that have started keep running: the worker, and a handler
\* that has its follow to count and to send. Requests arrive as they please.
FairSpec ==
    /\ FairInit
    /\ [][Next]_vars
    /\ WF_vars(WorkerReceive)
    /\ WF_vars(WorkerInsert)
    /\ WF_vars(WorkerCountError)
    /\ WF_vars(WorkerDone)
    /\ \A p \in Procs : WF_vars(LookupCount(p)) /\ WF_vars(LookupSend(p))

\* A server started over a database that already holds a link: CreateTables
\* keeps the tables it finds, and the row was returned by an earlier run.
WarmLink ==
    LinkRow(CreateRequest(TRUE, TheSecret, UrlA, "10.0.0.1:4000", "", 0),
            EncodeToString(<<0, 0, 0, 0, 0, 0>>), 1500000000)

WarmInit ==
    /\ lengthLimit = 0
    /\ h = [p \in Procs |-> Idle]
    /\ links = << WarmLink >>
    /\ followsTbl = <<>>
    /\ follows = <<>>
    /\ pendingFollows = 0
    /\ randomErrorCount = 0
    /\ authErrorCount = 0
    /\ dbUpdateErrorCount = 0
    /\ worker = [pc |-> "w_recv", f |-> NoFollow]
    /\ exited = FALSE
    /\ nreq = 0
    /\ last = Idle
    /\ returned = << << WarmLink.short_path, WarmLink.long_url >> >>
    /\ served = <<>>
    /\ n401 = 0
    /\ dropped = <<>>
    /\ sent = <<>>
    /\ handled = <<>>
    /\ metric = NoMetric

\* The follow pipeline on its own: lookups and the worker, no create request
\* arriving (a create touches neither the channel nor the follows table).
PipelineNext ==
    \/ \E p \in Procs : LookupHandler(p)
    \/ \E p \in Procs : LookupCount(p)
    \/ \E p \in Procs : LookupSend(p)
    \/ WorkerReceive
    \/ WorkerInsert
    \/ WorkerCountError
    \/ WorkerDone

\* The pipeline after a warm start, under the scheduling of FairSpec.
WarmSpec ==
    /\ WarmInit
    /\ [][PipelineNext]_vars
    /\ WF_vars(WorkerReceive)
    /\ WF_vars(WorkerInsert)
    /\ WF_vars(WorkerCountError)
    /\ WF_vars(WorkerDone)
    /\ \A p \in Procs : WF_vars(LookupCount(p)) /\ WF_vars(LookupSend(p))

\* ---------------------------------------------------------- histories
\* The short paths the generator can produce, and one it never produces.
ShortPaths == { EncodeToString(b) : b \in RandBufs } \cup { NoSuchPath }

\* How many lookups of sp were answered 302 so far.
N302(sp) == Cardinality({ k \in 1..Len(served) : served[k][1] = sp })

\* How many follow events of sp the worker dropped so far.
DroppedCount(sp) == Cardinality({ k \in 1..Len(dropped) : dropped[k] = sp })

\* The response of the request p has just taken up: still with p while the
\* handler has steps to take, and in `last` once it has returned.
Answer(p) == IF h'[p].pc = "idle" THEN last' ELSE h'[p]

C2_UniqueShortPath ==
    \A j, k \in 1..Len(links) :
        links[j].short_path = links[k].short_path => j = k

\* C2 witness: a create that arrived when the table was empty had a candidate
\* rejected as a duplicate: a concurrent create had inserted the same candidate.
C2_Witness ==
    /\ last.kind = "create"
    /\ last.status = 200
    /\ last.rows0 = 0
    /\ "unique" \in last.seen
    /\ Len(links) = 2

\* C3: the short paths returned by successful creates are pairwise distinct.
C3_DistinctPaths ==
    \A j, k \in 1..Len(returned) :
        returned[j][1] = returned[k][1] => j = k

\* C3 witness: a create that arrived after another one's row was committed
\* submitted the same long URL, drew a candidate already in the table and
\* returned a different short path.
C3_Witness ==
    /\ Len(returned) = 2
    /\ returned[1][2] = returned[2][2]
    /\ returned[1][1] # returned[2][1]
    /\ last.kind = "create"
    /\ last.status = 200
    /\ last.rows0 = 1
    /\ "unique" \in last.seen

\* The requests that are inside generateShortPath.
Generating == { p \in Procs : h[p].pc \in {"g_loop", "g_fatal"} }

\* C4 as stated: a create request whose long_url does not start with https://
\* always yields 400, and no row is inserted for it.
C4_AlwaysBadRequest ==
    /\ ( last.kind = "create" /\ ~HasPrefix(last.longURL, HttpsPrefix) )
       => last.status = 400
    /\ \A k \in 1..Len(links) : HasPrefix(links[k].long_url, HttpsPrefix)

\* C4 amended: a create request with decodable JSON and the correct secret whose
\* long_url does not start with https:// yields 400 with the error body; with
\* a wrong or missing secret it yields 401; in no case does such a request
\* reach the generator or insert a row.
C4_NonHttpsRejected ==
    /\ ( /\ last.kind = "create"
         /\ last.decodable
         /\ last.secret = TheSecret
         /\ ~HasPrefix(last.longURL, HttpsPrefix) )
       => ( /\ last.status = 400
            /\ last.body = "{\"error\": \"Links must start with https://\"}" )
    /\ ( last.kind = "create" /\ ~HasPrefix(last.longURL, HttpsPrefix) )
       => last.status \in {400, 401}
    /\ \A p \in Generating : HasPrefix(h[p].longURL, HttpsPrefix)
    /\ \A k \in 1..Len(links) : HasPrefix(links[k].long_url, HttpsPrefix)

\* C4 witness: a request with the correct secret and an http:// URL was
\* answered 400 while the table, which holds a row, kept its content.
C4_Witness ==
    /\ last.kind = "create"
    /\ last.secret = TheSecret
    /\ last.longURL = UrlHttp
    /\ last.status = 400
    /\ Len(links) = 1

\* C5: a decodable create request with a wrong or missing secret is answered
\* 401 and never generates a path, and every such request is counted exactly
\* once: the counter equals the 401 responses written plus the requests that
\* have been counted and are about to write theirs.
C5_AuthErrorsCounted ==
    /\ authErrorCount
         = n401 + Cardinality({ p \in Procs : h[p].pc = "c_401" })
    /\ \A p \in Procs :
         ( h[p].kind = "create" /\ h[p].decodable /\ h[p].secret # TheSecret )
         => h[p].pc = "c_401"
    /\ ( last.kind = "create" /\ last.decodable /\ last.secret # TheSecret )
       => last.status = 401
    /\ last.status = 401 => ( last.kind = "create" /\ last.secret # TheSecret )

\* C5 witness: two concurrent requests, one without a secret and one with a
\* wrong one, have both incremented the counter and both still have to answer.
C5_Witness ==
    /\ \E p, q \in Procs :
         /\ h[p].pc = "c_401" /\ h[p].secret = ""
         /\ h[q].pc = "c_401" /\ h[q].secret = "wrong"
    /\ authErrorCount = 3
    /\ n401 = 1

\* C6: with a limit > 0, a create request with the correct secret and the
\* https:// prefix whose long_url is longer than the limit is answered 400 and
\* no such URL reaches the generator or the table; with a limit <= 0 such a
\* request is never answered 400, whatever the length of its long_url.
C6_LengthLimit ==
    /\ ( /\ last.kind = "create"
         /\ last.decodable
         /\ last.secret = TheSecret
         /\ HasPrefix(last.longURL, HttpsPrefix) )
       => IF lengthLimit > 0 /\ Len(last.longURL) > lengthLimit
          THEN last.status = 400
          ELSE last.status \in {200, 500}
    /\ lengthLimit > 0 =>
         /\ \A p \in Generating : Len(h[p].longURL) <= lengthLimit
         /\ \A k \in 1..Len(links) : Len(links[k].long_url) <= lengthLimit

\* C6 witness: under a limit of 9 a URL of length 9 was accepted and stored, and
\* a longer one with the correct secret was answered 400.
C6_Witness ==
    /\ lengthLimit = 9
    /\ \E k \in 1..Len(links) : Len(links[k].long_url) = 9
    /\ last.kind = "create"
    /\ last.secret = TheSecret
    /\ last.longURL = UrlLong
    /\ last.status = 400

\* C6 witness of the other case: with no limit configured the long URL was
\* accepted and stored.
C6_WitnessNoLimit ==
    /\ lengthLimit <= 0
    /\ last.kind = "create"
    /\ last.longURL = UrlLong
    /\ last.status = 200

\* C7: while the process runs and the worker and the handlers are scheduled
\* fairly, a path that was answered 302 eventually has a follow row, unless the
\* insert of its follow failed in storage; and a pending count above zero
\* eventually returns to zero.
C7_FollowRecorded ==
    /\ \A sp \in ShortPaths \ {NoSuchPath} :
         ( N302(sp) >= 1 )
           ~> ( \/ FollowCount(followsTbl, sp) >= 1
                \/ DroppedCount(sp) >= 1
                \/ exited )
    /\ ( pendingFollows > 0 ) ~> ( pendingFollows = 0 \/ exited )

\* C7 witness: one lookup of a fresh link was answered 302, no insert failed,
\* the follow count of the path went from 0 to 1 and nothing is pending.
C7_Witness ==
    \E sp \in ShortPaths :
        /\ N302(sp) = 1
        /\ Len(served) = 1
        /\ FollowCount(followsTbl, sp) = 1
        /\ dropped = <<>>
        /\ pendingFollows = 0

C9_OneFollowPerLookup ==
    /\ \A j, k \in 1..Len(served) :
         served[j][1] = served[k][1] => served[j][2] = served[k][2]
    /\ \A sp \in ShortPaths :
         FollowCount(followsTbl, sp) + DroppedCount(sp) <= N302(sp)
    /\ ( pendingFollows = 0 /\ \A p \in Procs : h[p].pc # "l_count" )
       => \A sp \in ShortPaths :
            FollowCount(followsTbl, sp) + DroppedCount(sp) = N302(sp)

\* C9 witness: two lookups of one path were answered 302, no insert failed,
\* the queue has drained and the path has two follow rows.
C9_Witness ==
    \E sp \in ShortPaths :
        /\ N302(sp) = 2
        /\ dropped = <<>>
        /\ pendingFollows = 0
        /\ FollowCount(followsTbl, sp) = 2

\* C10: every follow row, every follow event in the channel and the event the
\* worker holds carry a short path that has a row in links.
C10_FollowsHaveLinks ==
    /\ \A k \in 1..Len(followsTbl) : HasRow(links, followsTbl[k].short_path)
    /\ \A k \in 1..Len(follows) : HasRow(links, follows[k].shortPath)
    /\ worker.pc # "w_recv" => HasRow(links, worker.f.shortPath)
    /\ \A p \in Procs :
         h[p].pc \in {"l_count", "l_send"} => HasRow(links, h[p].shortPath)

\* C10 witness: a follow row is written and the worker holds a second event.
C10_Witness ==
    /\ Len(followsTbl) = 1
    /\ worker.pc = "w_insert"

\* The step in which the call of generateShortPath made for p ends.
Generated(p) == h[p].pc = "g_loop" /\ h'[p].pc # "g_loop"

\* C11: a call of generateShortPath ends after at most 30 insert attempts. When
\* all 30 have failed, the call has counted exactly 30 attempts and logged
\* their errors, the create request answers 500 with the generation error, and
\* the links table and the list of returned paths are as they were; a request
\* answers 500 in no other way.
C11_BoundedAttempts ==
    [][ \A p \in Procs :
          Generated(p)
          => ( /\ Answer(p).i <= MaxAttempts
               /\ Answer(p).status = 500 <=> Answer(p).i = MaxAttempts
               /\ Answer(p).status = 500
                    => ( /\ Answer(p).body
                              = "{\"error\": \"could not generate link\"}"
                         /\ Answer(p).seen # {}
                         /\ Answer(p).shortURL = <<>>
                         /\ h'[p].pc = "idle"
                         /\ UNCHANGED << links, returned >> ) ) ]_vars

\* C11 witness: with one row in the table, a create saw duplicates as well as
\* storage errors in its 30 attempts and was answered 500; the table still
\* holds the one row.
C11_Witness ==
    /\ last.kind = "create"
    /\ last.status = 500
    /\ last.i = MaxAttempts
    /\ last.seen = {"unique", "storage"}
    /\ Len(links) = 1

\* C12: a failure of the random source is counted once per failed call, and
\* the generation error it leads to is returned to the caller, so that the
\* create request is answered: the process never ends with a request left
\* inside generateShortPath without its response.
C12_RandomErrorReturned ==
    /\ randomErrorCount >= Cardinality({ p \in Procs : h[p].pc = "g_fatal" })
    /\ \A p \in Procs : h[p].pc = "g_fatal" => ~exited

\* How many of the inserts the worker has executed ended as ok says.
HandledCount(ok) == Cardinality({ k \in 1..Len(handled) : handled[k] = ok })

\* C13: every failed follow insert is counted exactly once (the count is one
\* behind while the worker stands between the failure and the increment); the
\* event is dropped for good: every event sent is executed at most once, so
\* there are as many rows as successful inserts; the worker goes on from the
\* failure to the decrement and the next receive; and the steps of the
\* failure leave the handlers, their responses and the list of 302s alone.
C13_FailedInsertDropped ==
    /\ [] ( /\ dbUpdateErrorCount + (IF worker.pc = "w_err" THEN 1 ELSE 0)
                 = HandledCount(FALSE)
            /\ Len(followsTbl) = HandledCount(TRUE)
            /\ Len(dropped) = HandledCount(FALSE)
            /\ Len(handled) + Len(follows)
                 + (IF worker.pc = "w_insert" THEN 1 ELSE 0) = Len(sent) )
    /\ [][ /\ ( worker.pc = "w_insert" /\ worker'.pc = "w_err" )
               => UNCHANGED << h, last, served, followsTbl, follows, sent >>
           /\ ( worker.pc = "w_err" /\ worker' # worker )
               => ( /\ worker'.pc = "w_done"
                    /\ dbUpdateErrorCount' = dbUpdateErrorCount + 1
                    /\ UNCHANGED << h, last, served, followsTbl, follows,
                                    sent >> ) ]_vars

\* C13 witness: the first of two follow events failed in storage and was
\* counted; the second one was received after it and has its row; the lookups
\* of both were answered 302.
C13_Witness ==
    /\ handled = << FALSE, TRUE >>
    /\ dbUpdateErrorCount = 1
    /\ Len(followsTbl) = 1
    /\ Len(served) = 2
    /\ last.kind = "lookup"
    /\ last.status = 302

\* The handlers that have answered 302 and not yet sent their follow event.
Sending == { p \in Procs : h[p].pc \in {"l_count", "l_send"} }

\* C14: the send of a follow event can be taken exactly when the handler is at
\* it and the channel is not full; the step that takes a handler past the send
\* appends its event to the channel, without a step of the worker, and the
\* handler returns with its 302; every 302 has its event sent or its handler
\* still on the way to the send, so no event is discarded; and, the worker
\* and the handler being scheduled fairly, a handler at the send gets past it.
C14_BlockOnlyWhenFull ==
    /\ [] ( /\ Len(follows) <= FollowsCap
            /\ \A p \in Procs :
                 ENABLED LookupSend(p)
                 <=> ( ~exited /\ h[p].pc = "l_send"
                       /\ Len(follows) < FollowsCap )
            /\ Len(served) = Len(sent) + Cardinality(Sending) )
    /\ [][ \A p \in Procs :
             ( h[p].pc = "l_send" /\ h'[p].pc # "l_send" )
             => ( /\ Len(follows) < FollowsCap
                  /\ \E ts \in FollowTimes :
                       follows' = Append(follows, FollowOf(h[p], ts))
                  /\ sent' = Append(sent, follows'[Len(follows')])
                  /\ worker' = worker
                  /\ h'[p].pc = "idle"
                  /\ last'.status = 302 ) ]_vars
    /\ \A p \in Procs : ( h[p].pc = "l_send" ) ~> ( h[p].pc # "l_send" )

\* C14 witness: the channel is full and a handler that has answered 302 and
\* counted its follow waits at the send, while every event sent so far is
\* still in the channel.
C14_Witness ==
    /\ Len(follows) = FollowsCap
    /\ \E p \in Procs : h[p].pc = "l_send"
    /\ sent = follows
    /\ pendingFollows = FollowsCap + 1

\* The counter a reading is a reading of.
CounterOf(name) ==
    CASE name = "random_error_count" -> randomErrorCount
      [] name = "auth_error_count" -> authErrorCount
      [] name = "db_update_error_count" -> dbUpdateErrorCount
      [] OTHER -> 0

\* C15: no step of a handler, of the worker or of the collector lowers one of
\* the three counters; a step that delivers a reading changes nothing of the
\* program's state; and no reading exceeds its counter, so what the collector
\* sees of one counter never goes down either.
C15_CountersMonotonic ==
    /\ [] ( Float64(CounterOf(metric.name)) >= metric.value )
    /\ [][ /\ randomErrorCount' >= randomErrorCount
           /\ authErrorCount' >= authErrorCount
           /\ dbUpdateErrorCount' >= dbUpdateErrorCount
           /\ metric' # metric
               => ( /\ UNCHANGED progVars
                    /\ metric'.value = Float64(CounterOf(metric'.name)) )
           /\ ( metric'.name = metric.name )
               => metric'.value >= metric.value ]_vars

\* C15 witness: the collector read the authorization counter at 1; since then
\* a second unauthorized request was counted, which has yet to be answered.
C15_Witness ==
    /\ metric = [name |-> "auth_error_count", value |-> 1]
    /\ authErrorCount = 2
    /\ n401 = 1

\* The failed link inserts on record for the create request that returned
\* last: all 30 of an exhausted call, and otherwise at least one for every
\* kind of error the call logged.
FailedLinkInserts ==
    IF last.kind # "create" THEN 0
    ELSE IF last.status = 500 THEN last.i
    ELSE Cardinality(last.seen)

\* C16: DBUpdateErrors counts the attempts to update the database which
\* failed, the link inserts of the generator as well as the follow inserts of
\* the worker: the counter (with the increment the worker is about to make)
\* is never below the failed follow inserts plus the failed link inserts on
\* record.
C16_FailedWritesCounted ==
    dbUpdateErrorCount + (IF worker.pc = "w_err" THEN 1 ELSE 0)
        >= HandledCount(FALSE) + FailedLinkInserts

\* C17: every step leaves each row of links where and as it is: the table is
\* only ever extended at its end, so the long_url and the creation metadata
\* stored for a short path never change and no row goes away; and a step that
\* extends it is the successful return of a create request.
C17_LinksImmutable ==
    [][ /\ Len(links') >= Len(links)
        /\ \A k \in 1..Len(links) : links'[k] = links[k]
        /\ links' # links
            => ( /\ Len(links') = Len(links) + 1
                 /\ last'.kind = "create"
                 /\ last'.status = 200
                 /\ links'[Len(links')].short_path = last'.shortPath ) ]_vars

\* C17 witness: with one link stored, a create for another long URL drew the
\* stored short path, was rejected, and ended with a second row; the first
\* row stands as it was created.
C17_Witness ==
    /\ Len(links) = 2
    /\ links[1].long_url # links[2].long_url
    /\ returned[1] = << links[1].short_path, links[1].long_url >>
    /\ last.kind = "create"
    /\ last.status = 200
    /\ last.rows0 = 1
    /\ "unique" \in last.seen

\* What C18 says of a call of generateShortPath for request r against the
\* table tbl: a candidate it returns is one whose insert succeeds; any
\* combination of the failures the store can answer with can come before the
\* success (a duplicate and any other error alike lead to the next attempt,
\* none ends the call); and the call ends without a candidate only with the
\* loop run out or the random source failing.
RetriesUntilSuccess(tbl, r) ==
    LET tries == Tries(tbl, r)
        outs == GenerateOutcomes(tries, 0, {{}})
        good == { t \in tries : t.err = "" }
        errs == { t.err : t \in tries } \ {""}
        oks == { o \in outs : o.result = "ok" }
    IN  /\ \A o \in oks :
             /\ ~HasRow(tbl, o.shortPath)
             /\ \E t \in good : t.shortPath = o.shortPath
        /\ good # {} => { o.seen : o \in oks } = SUBSET errs
        /\ \A o \in outs \ oks :
             \/ o.result = "random_error"
             \/ o.result = "exhausted" /\ o.i = MaxAttempts

\* C18: RetriesUntilSuccess holds of every call, stated at the steps that
\* bring about a new pair of table and request in the call (the request
\* arrives at the call, or the table changes under it); a create answered 200
\* has appended exactly one row, keyed by the short path it returns and
\* holding its long URL; and the rows of links are, one for one and in order,
\* the short paths returned.
C18_FirstSuccessReturned ==
    /\ [] ( /\ Len(links) = Len(returned)
            /\ \A k \in 1..Len(links) :
                 returned[k] = << links[k].short_path, links[k].long_url >> )
    /\ [][ \A p \in Procs :
             /\ ( /\ h'[p].pc = "g_loop"
                  /\ ( h[p].pc # "g_loop" \/ links' # links ) )
                => RetriesUntilSuccess(links', h'[p])
             /\ ( Generated(p) /\ Answer(p).status = 200 )
                => ( /\ ~HasRow(links, Answer(p).shortPath)
                     /\ \E ts \in Times :
                          links' = Append(links,
                                     LinkRow(h[p], Answer(p).shortPath, ts))
                     /\ Answer(p).shortURL
                          = BaseString \o Answer(p).shortPath
                     /\ Answer(p).longURL = h[p].longURL ) ]_vars

\* C18 witness: with one link stored, a create had an insert rejected as a
\* duplicate and another one fail in storage, went on, and was answered 200
\* for the candidate of the attempt that succeeded; the table holds two rows.
C18_Witness ==
    /\ last.kind = "create"
    /\ last.status = 200
    /\ last.seen = {"unique", "storage"}
    /\ Len(links) = 2
    /\ links[2].short_path = last.shortPath
    /\ links[2].long_url = last.longURL

\* C19: the response of a create request is decided by the first check that
\* fails, in the order decoding, secret, https:// prefix, length limit: an
\* undecodable body is answered 400 and leaves the authorization counter as it
\* is; a decodable request with a wrong secret is counted once and answered
\* 401 whatever its long_url; with the correct secret a long_url without the
\* prefix is answered 400 for the prefix, also when it is too long; one with
\* the prefix that exceeds a limit > 0 is answered 400 for its length; and
\* only a request that passes all four reaches the generator.
C19_CheckOrder ==
    /\ [] ( last.kind = "create"
            => IF ~last.decodable
               THEN /\ last.status = 400
                    /\ last.body = "{\"error\": \"error decoding json\"}"
               ELSE IF last.secret # TheSecret
               THEN /\ last.status = 401
                    /\ last.body
                         = "{\"error\": \"Must specify correct secret\"}"
               ELSE IF ~HasPrefix(last.longURL, HttpsPrefix)
               THEN /\ last.status = 400
                    /\ last.body
                         = "{\"error\": \"Links must start with https://\"}"
               ELSE IF lengthLimit > 0 /\ Len(last.longURL) > lengthLimit
               THEN /\ last.status = 400
                    /\ last.body = "{\"error\": \"link too long\"}"
               ELSE last.status \in {200, 500} )
    /\ [][ \A p \in Procs :
             CreateHandler(p)
             => LET r == Answer(p)
                IN  /\ authErrorCount'
                         = authErrorCount
                           + (IF r.decodable /\ r.secret # TheSecret
                              THEN 1 ELSE 0)
                    /\ h'[p].pc = "c_401"
                         <=> ( r.decodable /\ r.secret # TheSecret )
                    /\ h'[p].pc = "g_loop"
                         <=> ( /\ r.decodable
                               /\ r.secret = TheSecret
                               /\ HasPrefix(r.longURL, HttpsPrefix)
                               /\ ~( lengthLimit > 0
                                     /\ Len(r.longURL) > lengthLimit ) )
                    /\ h'[p].pc \in {"idle", "c_401", "g_loop"}
                    /\ UNCHANGED << links, randomErrorCount,
                                    dbUpdateErrorCount >> ]_vars

\* C19 witness: under a limit of 9, after a request that left the counter at
\* 0, a request with a wrong secret and a long_url that is too long was
\* counted and answered 401.
C19_Witness ==
    /\ lengthLimit = 9
    /\ last.kind = "create"
    /\ last.secret = "wrong"
    /\ last.longURL = UrlLong
    /\ last.status = 401
    /\ authErrorCount = 1
    /\ nreq = 2

\* The follows table as it must be after the first k events sent, given which
\* of their inserts succeeded.
RECURSIVE Written(_)
Written(k) ==
    IF k = 0 THEN <<>>
    ELSE IF handled[k] THEN InsertFollow(Written(k - 1), sent[k])
    ELSE Written(k - 1)

\* C20: the one worker takes the events in the order of their send and has at
\* most one in hand: the events it has executed are the first Len(handled)
\* events sent, the event it holds is the next one (or the last one executed,
\* until the decrement), the channel holds the rest in order, and the rows of
\* follows are the successfully inserted ones among the executed, in the order
\* of their send; every step executes at most one insert.
C20_FollowsInSendOrder ==
    /\ [] LET n == Len(handled)
          IN  /\ n <= Len(sent)
              /\ followsTbl = Written(n)
              /\ worker.pc \in {"w_recv", "w_insert", "w_err", "w_done"}
              /\ worker.pc = "w_recv"
                   => ( /\ worker.f = NoFollow
                        /\ follows = SubSeq(sent, n + 1, Len(sent)) )
              /\ worker.pc = "w_insert"
                   => ( /\ n < Len(sent)
                        /\ worker.f = sent[n + 1]
                        /\ follows = SubSeq(sent, n + 2, Len(sent)) )
              /\ worker.pc \in {"w_err", "w_done"}
                   => ( /\ n >= 1
                        /\ worker.f = sent[n]
                        /\ worker.pc = "w_err" => ~handled[n]
                        /\ follows = SubSeq(sent, n + 1, Len(sent)) )
    /\ [][ /\ Len(handled') <= Len(handled) + 1
           /\ Len(followsTbl') <= Len(followsTbl) + 1
           /\ followsTbl' # followsTbl
               => ( worker.pc = "w_insert" /\ worker'.pc = "w_done" ) ]_vars

\* C20 witness: two different follow events were sent and both have been
\* written, the one sent first in the first row, and nothing is pending.
C20_Witness ==
    /\ Len(sent) = 2
    /\ sent[1] # sent[2]
    /\ handled = << TRUE, TRUE >>
    /\ Len(followsTbl) = 2
    /\ followsTbl[1].ts = sent[1].timestamp
    /\ pendingFollows = 0

\* C21: the pending count is never negative and equals the follow events
\* counted and not yet finished: the handlers between the increment and the
\* send, the events in the channel, and the event the worker has received and
\* not yet decremented for; so at 0 the channel is empty, the worker holds
\* nothing, and every event sent so far has its row or was dropped.
C21_PendingCount ==
    /\ pendingFollows >= 0
    /\ pendingFollows
         = Cardinality({ p \in Procs : h[p].pc = "l_send" })
           + Len(follows)
           + (IF worker.pc = "w_recv" THEN 0 ELSE 1)
    /\ pendingFollows = 0
         => ( /\ follows = <<>>
              /\ worker.pc = "w_recv"
              /\ Len(handled) = Len(sent)
              /\ Len(followsTbl) + Len(dropped) = Len(sent) )

\* C21 witness: the count is 2 for one handler that has counted and not yet
\* sent and one event the worker is inserting, with the channel empty.
C21_Witness ==
    /\ pendingFollows = 2
    /\ \E p \in Procs : h[p].pc = "l_send"
    /\ worker.pc = "w_insert"
    /\ follows = <<>>

\* How many follow events of sp have been sent: one per 302 of sp delivered.
SentCount(sp) ==
    Cardinality({ k \in 1..Len(sent) : sent[k].shortPath = sp })

\* C22: the response of a lookup reaches the client when the handler returns,
\* after the increment and the send. So every event of a delivered 302 is in
\* the pending count until the worker has executed it; the 302 the client
\* received last has its event sent; and when the pending count reads 0 after
\* that, the path's follow rows plus its dropped follows equal the 302s
\* delivered for it: without a failed insert the row of that lookup is there.
C22_CountedBeforeDelivery ==
    /\ pendingFollows >= Len(sent) - Len(handled)
    /\ ( last.kind = "lookup" /\ last.status = 302 )
       => ( /\ SentCount(last.shortPath) >= 1
            /\ pendingFollows = 0
                => ( /\ FollowCount(followsTbl, last.shortPath)
                          + DroppedCount(last.shortPath)
                        = SentCount(last.shortPath)
                     /\ DroppedCount(last.shortPath) = 0
                         => FollowCount(followsTbl, last.shortPath) >= 1 ) )

\* C22 witness: the client has its 302, the pending count reads 0 again and
\* the follows table holds the row of that lookup; no insert failed.
C22_Witness ==
    /\ last.kind = "lookup"
    /\ last.status = 302
    /\ pendingFollows = 0
    /\ Len(sent) = 1
    /\ dropped = <<>>
    /\ followsTbl = InsertFollow(<<>>, sent[1])
    /\ sent[1].shortPath = last.shortPath

\* C23: with the worker and the handlers that have answered 302 scheduled
\* fairly, once the lookups have stopped arriving the pending count reaches 0
\* and stays there, whichever of the follow inserts fail; and whenever it is
\* above 0 it comes back to 0.
C23_PendingDrains ==
    /\ <>[] ( pendingFollows = 0 )
    /\ ( pendingFollows > 0 ) ~> ( pendingFollows = 0 )

\* C23 witness: all lookups of the run were answered 302, every one of their
\* follow inserts failed, and the pending count is back to 0.
C23_Witness ==
    /\ nreq = MaxRequests
    /\ Len(sent) = MaxRequests
    /\ Len(handled) = Len(sent)
    /\ \A k \in 1..Len(handled) : ~handled[k]
    /\ followsTbl = <<>>
    /\ pendingFollows = 0

\* The steps CreateHandler takes for the request of p when it rejects it: the
\* checks that end in a 400 or in the failed secret comparison, and the writing
\* of the 401.
Rejecting(p) ==
    \/ CreateHandler(p) /\ ( Answer(p).status = 400 \/ h'[p].pc = "c_401" )
    \/ h[p].pc = "c_401" /\ h'[p] # h[p]

\* C24: a create request answered 400 or 401 ends there. No request with an
\* undecodable body, a wrong secret or a URL without https:// is ever inside
\* generateShortPath, and no such response carries a generated path; the steps
\* of a rejected request leave the links table, the follows table, the
\* follow queue, the pending count, the worker, the list of returned paths
\* and the counters unchanged, except that the request that fails the secret
\* comparison adds exactly 1 to the authorization-error counter; and after the
\* 401 is written the handler has returned.
C24_RejectedHasNoEffect ==
    /\ [] ( /\ \A p \in Generating :
                  /\ h[p].decodable
                  /\ h[p].secret = TheSecret
                  /\ HasPrefix(h[p].longURL, HttpsPrefix)
                  /\ h[p].status = 0
            /\ ( last.kind = "create" /\ last.status \in {400, 401} )
               => ( /\ last.shortPath = <<>>
                    /\ last.shortURL = <<>>
                    /\ last.seen = {}
                    /\ last.i = 0 ) )
    /\ [][ \A p \in Procs :
             Rejecting(p)
             => /\ UNCHANGED << links, followsTbl, follows, pendingFollows,
                                worker, returned, sent, handled, dropped,
                                randomErrorCount, dbUpdateErrorCount, exited >>
                /\ authErrorCount'
                     = authErrorCount
                       + (IF h[p].pc = "idle" /\ h'[p].pc = "c_401"
                          THEN 1 ELSE 0)
                /\ h[p].pc = "c_401"
                     => ( /\ h'[p].pc = "idle"
                          /\ last'.kind = "create"
                          /\ last'.status = 401 )
                /\ h'[p].pc \in {"idle", "c_401"} ]_vars

\* C24 witness: a request was answered 401 while the links table held a row
\* and a follow of that row was pending: the counter stands at 1, the row, the
\* pending count and the other counters are as they were.
C24_Witness ==
    /\ last.kind = "create"
    /\ last.status = 401
    /\ authErrorCount = 1
    /\ n401 = 1
    /\ Len(links) = 1
    /\ pendingFollows = 1
    /\ Len(sent) = 1
    /\ randomErrorCount = 0
    /\ dbUpdateErrorCount = 0

\* C25: a create request that returns a short path returns one that no other
\* request, concurrent or earlier, has reserved or returned: at the moment its
\* call of generateShortPath returns, the path is in no row of the table and
\* in no earlier response, the call adds exactly the row of that path, and the
\* requests still inside generateShortPath are left as they were. A request
\* that saw a candidate rejected as a duplicate therefore returns another one.
C25_ConcurrentCreatesDistinct ==
    [][ \A p \in Procs :
          ( Generated(p) /\ Answer(p).status = 200 )
          => LET sp == Answer(p).shortPath
             IN  /\ \A k \in 1..Len(links) : links[k].short_path # sp
                 /\ \A j \in 1..Len(returned) : returned[j][1] # sp
                 /\ Len(links') = Len(links) + 1
                 /\ SubSeq(links', 1, Len(links)) = links
                 /\ links'[Len(links')].short_path = sp
                 /\ links'[Len(links')].long_url = h[p].longURL
                 /\ returned' = Append(returned, << sp, h[p].longURL >>)
                 /\ Answer(p).shortURL = BaseString \o sp
                 /\ \A q \in Procs \ {p} : h'[q] = h[q] ]_vars

\* C25 witness: two requests were inside generateShortPath together with the
\* table empty; the first returned a path, the second had a candidate rejected
\* as a duplicate and returned a different path, while a third request, which
\* arrived in between, is still generating.
C25_Witness ==
    /\ Len(returned) = 2
    /\ returned[1][1] # returned[2][1]
    /\ last.kind = "create"
    /\ last.status = 200
    /\ last.rows0 = 0
    /\ "unique" \in last.seen
    /\ last.shortPath = returned[2][1]
    /\ \E q \in Procs : h[q].pc = "g_loop" /\ h[q].rows0 = 1

====
